---- MODULE Spec2Model ----
(***************************************************************************)
(* Model of opti_radar's multi-target localisation pipeline                *)
(* (src/src/target_processor.rs): get_line, find_closest_midpoint,         *)
(* levenberg_marquardt_optimize, ransac_fit_lines and find_targets, and of *)
(* the demo front end (src/src/main.rs, src/src/data_generator.rs).        *)
(*                                                                         *)
(* Spec follows one call of find_targets, SpecWideThreshold the same with  *)
(* other thresholds, SpecTwoCalls two calls with the same arguments,       *)
(* SpecMain a run of the front end, SpecLm a call of                       *)
(* levenberg_marquardt_optimize pass by pass, and FairSpecSample the       *)
(* sampling loop of ransac_fit_lines draw by draw.                         *)
(*                                                                         *)
(* Arithmetic.  The code computes in binary64.  The model computes in      *)
(* exact fixed point: a length is an integer number of 1/Scale metres.     *)
(* The measurements the model draws have integer coordinates and           *)
(* axis-aligned directions; for those every quantity the consensus fitter  *)
(* computes (closest points, midpoints, the seed, squared distances) is an *)
(* exact multiple of 1/Scale, so the divisions below lose nothing.  NaN    *)
(* (the result of normalising a zero direction) is modelled as a value of  *)
(* its own that every arithmetic operation propagates and every            *)
(* comparison rejects, as IEEE 754 does.                                   *)
(***************************************************************************)
EXTENDS Integers, Sequences, FiniteSets

(* ------------------------------ bounds --------------------------------- *)

\* Longest measurement list find_targets is called with.
MaxRays == 4

\* Largest min_lines_per_target find_targets is called with (smallest: 0,
\* the type is usize).
MaxMinLines == 3

\* Hypotheses drawn per call of ransac_fit_lines.  find_targets passes 100
\* (target_processor.rs:225); the sampler is random, so the model lets each
\* iteration draw any triple and bounds the number of iterations.
RansacIterations == 2

\* Cap on the number of targets the outer loop may commit.  It binds only
\* for min_lines_per_target = 0, where the loop can commit a target without
\* consuming a ray and so has no bound of its own.  (For min_lines_per_target
\* >= 1 a pool of fewer than 3 rays ends the loop, so at most MaxRays - 2
\* targets are committed: CapNeverBinds.)
MaxTargets == 2

\* Longest list of lines levenberg_marquardt_optimize is called with on its
\* own.
MaxLmLines == 3

\* Largest `iterations` levenberg_marquardt_optimize is called with on its
\* own (find_targets passes 200; on the fixed-point grid the position stops
\* changing within a few passes).
MaxLmIterations == 5

\* Largest pool whose sampling loop is followed draw by draw.
MaxPool == 5

\* Number of true targets the front end generates.  main passes 5
\* (main.rs:7); the model follows runs with fewer.
NumTargets == 1

(* --------------------------- program constants -------------------------- *)

\* main: find_targets(&measurements, 1.0, 3)
MainThreshold == 1

MainMinLines == 3

\* main: num_stations_per_target_range = (3, 6)
MinStations == 3

MaxStations == 6

\* Exit status of a Rust process whose main thread panicked.
PanicExitCode == 101

\* Fixed-point resolution: lengths are integers in units of 1/Scale metre.
\* 6 = 2 * 3: a midpoint halves (target_processor.rs:54,60) and the seed
\* divides by 3.0 (target_processor.rs:166).
Scale == 6

\* levenberg_marquardt_optimize(&target_lines, initial_guess, 200, 0.001)
LmIterations == 200

\* initial_lambda = 0.001 = 10^(-3): the model keeps lambda as a power of ten.
LmInitialLambdaExp == -3

(* ------------------------------ vectors -------------------------------- *)

\* A vector or point is a triple of integers, or NaN3 when its components
\* are NaN.  (Every NaN vector the code can produce from the modelled inputs
\* has all three components NaN.)
NaN3 == <<>>

\* A scalar the code may compute as NaN: nan tells whether it is, v is its
\* value otherwise.
FNaN == [nan |-> TRUE, v |-> 0]

FVal(x) == [nan |-> FALSE, v |-> x]

IsNaN3(v) == v = NaN3

Dot(u, v) == u[1] * v[1] + u[2] * v[2] + u[3] * v[3]

VAdd(u, v) == <<u[1] + v[1], u[2] + v[2], u[3] + v[3]>>

VSub(u, v) == <<u[1] - v[1], u[2] - v[2], u[3] - v[3]>>

VMul(u, s) == <<u[1] * s, u[2] * s, u[3] * s>>

\* Componentwise division by a positive integer that divides exactly on the
\* modelled inputs.
VDiv(u, n) == <<u[1] \div n, u[2] \div n, u[3] \div n>>

Abs(n) == IF n < 0 THEN -n ELSE n

\* Integer square root (floor).
ISqrt(n) == CHOOSE r \in 0..n : r * r <= n /\ (r + 1) * (r + 1) > n

(* ---------------------------- measurements ----------------------------- *)

\* The measurements the model draws from, in metres.  MX runs along the x
\* axis and MY along the y axis; they meet in (0,0,0).  MV is vertical
\* through (6,0,0), where it meets MX; it passes MY at a distance of 6.
\* MZ has a zero direction.  MX's direction is not of unit length and MV's
\* is negative.
MX == [x |-> -2, y |-> 0, z |-> 0, direction_x |-> 2, direction_y |-> 0, direction_z |-> 0]

MY == [x |-> 0, y |-> -2, z |-> 0, direction_x |-> 0, direction_y |-> 1, direction_z |-> 0]

MV == [x |-> 6, y |-> 0, z |-> 4, direction_x |-> 0, direction_y |-> 0, direction_z |-> -1]

MZ == [x |-> 1, y |-> 1, z |-> 1, direction_x |-> 0, direction_y |-> 0, direction_z |-> 0]

Catalogue == {MX, MY, MV, MZ}

\* ransac_threshold_m values, in metres.
Thresholds == {1, 3}

(* ------------------------------ get_line ------------------------------- *)

\* Vector3::normalize: v / |v|.  A zero vector gives 0/0 = NaN in every
\* component; no check rejects it.  The division is exact for the
\* axis-aligned directions of the Catalogue.
Normalize(v) ==
    LET n == ISqrt(Dot(v, v))
    IN  IF n = 0 THEN NaN3 ELSE VDiv(v, n)

get_line(m) ==
    [start |-> VMul(<<m.x, m.y, m.z>>, Scale),
     direction |-> Normalize(<<m.direction_x, m.direction_y, m.direction_z>>)]

(* ------------------------ find_closest_midpoint ------------------------ *)

find_closest_midpoint(line1, line2) ==
    IF IsNaN3(line1.direction) \/ IsNaN3(line2.direction)
    THEN NaN3   \* denom is NaN, |denom| < 1e-6 is false, s and t are NaN
    ELSE
    LET w0 == VSub(line1.start, line2.start)
        a == Dot(line1.direction, line1.direction)
        b == Dot(line1.direction, line2.direction)
        c == Dot(line2.direction, line2.direction)
        d == Dot(line1.direction, w0)
        e == Dot(line2.direction, w0)
        denom == a * c - b * b
    IN  IF Abs(denom) = 0   \* integer denom: |denom| < 1e-6 iff denom = 0
        THEN VDiv(VAdd(line1.start, line2.start), 2)
        ELSE LET s == (b * e - c * d) \div denom
                 t == (a * e - b * d) \div denom
                 closest_point1 == VAdd(line1.start, VMul(line1.direction, s))
                 closest_point2 == VAdd(line2.start, VMul(line2.direction, t))
             IN  VDiv(VAdd(closest_point1, closest_point2), 2)

(* ---------------------- point-to-ray distance -------------------------- *)

\* The perpendicular component (pa - direction * proj) of pos - line.start.
PerpVec(pos, line) ==
    IF IsNaN3(pos) \/ IsNaN3(line.direction)
    THEN NaN3
    ELSE LET pa == VSub(pos, line.start)
             proj == Dot(pa, line.direction)
         IN  VSub(pa, VMul(line.direction, proj))

\* norm_squared of the perpendicular component, in (1/Scale m)^2, or NaN.
PerpDistSq(pos, line) ==
    LET v == PerpVec(pos, line)
    IN  IF IsNaN3(v) THEN FNaN ELSE FVal(Dot(v, v))

WithinThresholdAny(dsq, threshold) == ~dsq.nan

\* distance < ransac_threshold, for distance = sqrt(dsq) >= 0 and a
\* threshold >= 0 given in metres.  A NaN distance compares false.
WithinThreshold(dsq, threshold) ==
    /\ ~dsq.nan
    /\ dsq.v < (threshold * Scale) * (threshold * Scale)

(* -------------------- levenberg_marquardt_optimize --------------------- *)

\* jac_block = I - d d^T, entry (k, j).
JacBlock(line, k, j) ==
    (IF k = j THEN 1 ELSE 0) - line.direction[k] * line.direction[j]

RECURSIVE SumSeq(_)
\* Sum of a sequence of integers.
SumSeq(s) == IF s = <<>> THEN 0 ELSE Head(s) + SumSeq(Tail(s))

\* h_approx = J^T J, entry (k, j): the sum over the lines of
\* jac_block^T jac_block.
HApprox(lines, k, j) ==
    LET Term(line) == JacBlock(line, 1, k) * JacBlock(line, 1, j)
                      + JacBlock(line, 2, k) * JacBlock(line, 2, j)
                      + JacBlock(line, 3, k) * JacBlock(line, 3, j)
    IN  SumSeq([i \in 1..Len(lines) |-> Term(lines[i])])

\* b = J^T e, component k.
Gradient(lines, pos, k) ==
    LET Term(line) == JacBlock(line, 1, k) * PerpVec(pos, line)[1]
                      + JacBlock(line, 2, k) * PerpVec(pos, line)[2]
                      + JacBlock(line, 3, k) * PerpVec(pos, line)[3]
    IN  SumSeq([i \in 1..Len(lines) |-> Term(lines[i])])

\* Sum of squared perpendicular distances from pos to the lines.
ErrorSq(lines, pos) ==
    LET Term(line) == PerpDistSq(pos, line).v
    IN  SumSeq([i \in 1..Len(lines) |-> Term(lines[i])])

Pow10(n) == CASE n = 0 -> 1 [] n = 1 -> 10 [] n = 2 -> 100 [] n = 3 -> 1000
              [] n = 4 -> 10000 [] n = 5 -> 100000 [] n = 6 -> 1000000
              [] n = 7 -> 10000000 [] n = 8 -> 100000000

\* Division rounded to the nearest integer, for den > 0.
RoundDiv(num, den) == (2 * num + den) \div (2 * den)

\* Component of inv(h_approx + lambda I) * -b for lambda = 10^lam, rounded to
\* the fixed-point grid.  h_approx is diagonal for axis-aligned directions,
\* so the inverse is taken entry by entry.  Beyond 10^8 lambda exceeds every
\* |b| of the model and the step rounds to 0; below 10^(-6) it no longer
\* changes the rounded step.
DeltaComponent(b, h, lam) ==
    IF lam >= 0
    THEN IF lam > 8 THEN 0 ELSE RoundDiv(-b, h + Pow10(lam))
    ELSE LET m == IF -lam > 6 THEN 6 ELSE -lam
         IN  RoundDiv((-b) * Pow10(m), h * Pow10(m) + 1)

LmIterateAcceptAll(lines, current_pos, lam) ==
    LET delta == [k \in 1..3 |->
                    DeltaComponent(Gradient(lines, current_pos, k),
                                   HApprox(lines, k, k), lam)]
    IN  [pos |-> VAdd(current_pos, delta), lam |-> lam - 1, delta |-> delta,
         moved |-> TRUE]

\* One pass of the loop body (lines 79-133) from (current_pos, lambda): the
\* new position and exponent of lambda, the trial step, and whether the
\* position moved.
LmIterate(lines, current_pos, lam) ==
    LET h == <<HApprox(lines, 1, 1), HApprox(lines, 2, 2), HApprox(lines, 3, 3)>>
        b == <<Gradient(lines, current_pos, 1), Gradient(lines, current_pos, 2),
               Gradient(lines, current_pos, 3)>>
        \* h_lm.try_inverse() is None iff the determinant of the damped
        \* matrix is zero; lambda = 10^lam > 0 keeps every entry positive.
        invertible == \A k \in 1..3 : h[k] >= 0
        delta == <<DeltaComponent(b[1], h[1], lam),
                   DeltaComponent(b[2], h[2], lam),
                   DeltaComponent(b[3], h[3], lam)>>
        new_pos == VAdd(current_pos, delta)
        new_error_sq == ErrorSq(lines, new_pos)
        current_error_sq == ErrorSq(lines, current_pos)
    IN  IF ~invertible
        THEN [pos |-> current_pos, lam |-> lam + 1, delta |-> <<0, 0, 0>>,
              moved |-> FALSE]
        ELSE IF new_error_sq < current_error_sq
        THEN [pos |-> new_pos, lam |-> lam - 1, delta |-> delta,
              moved |-> TRUE]
        ELSE [pos |-> current_pos, lam |-> lam + 1, delta |-> delta,
              moved |-> FALSE]

RECURSIVE LmLoop(_, _, _, _)
\* The remaining `left` iterations of the loop.  A rejected step leaves the
\* position alone and multiplies lambda by 10, which only shortens the next
\* trial step; once a rejected trial step has rounded to zero every later
\* one does too, so the loop's result is the current position and the model
\* stops unrolling there.
LmLoop(lines, current_pos, lam, left) ==
    IF left = 0
    THEN current_pos
    ELSE LET r == LmIterate(lines, current_pos, lam)
         IN  IF ~r.moved /\ r.delta = <<0, 0, 0>>
             THEN current_pos
             ELSE LmLoop(lines, r.pos, r.lam, left - 1)

levenberg_marquardt_optimize(lines, initial_guess, iterations, initial_lambda) ==
    LmLoop(lines, initial_guess, initial_lambda, iterations)

(* ------------------------------- state --------------------------------- *)

VARIABLES
    \* find_targets' arguments
    data,                   \* &[Measurement]
    ransac_threshold_m,     \* f64, in metres
    min_lines_per_target,   \* usize
    \* find_targets' locals
    pc,                     \* where the call stands
    all_lines,              \* Vec<Line>
    located_targets,        \* Vec<LocatedTarget>
    used_line_indices,      \* HashSet<usize>
    target_id_counter,
    remaining_lines_map,    \* original index of each remaining line, in order
    ransac_result,          \* what ransac_fit_lines returned to the loop
    refined,                \* actual_inliers_indices, final_pos, avg_error_dist
    \* ransac_fit_lines' locals
    iteration,              \* passes of the for loop completed
    best_inliers_indices,
    best_model_pos,
    \* history, read by the properties only
    first_max,              \* earliest hypothesis with the largest inlier count
    support,                \* per committed target, its original ray indices
    calls,                  \* calls of ransac_fit_lines and of the refiner
    \* the caller of find_targets
    previous,               \* what an earlier call with the same arguments returned
    \* a call of levenberg_marquardt_optimize on its own
    lm,                     \* its arguments, current_pos, lambda, passes done
    \* the sampling loop of one iteration of ransac_fit_lines
    sample,                 \* all_lines.len(), sample_indices, the last draw
    \* the demo front end
    main                    \* true_targets, records printed, exit status

\* What find_targets and ransac_fit_lines cannot touch.
context_vars == <<previous, lm, sample, main>>

vars == <<data, ransac_threshold_m, min_lines_per_target, pc, all_lines,
          located_targets, used_line_indices, target_id_counter,
          remaining_lines_map, ransac_result, refined, iteration,
          best_inliers_indices, best_model_pos, first_max, support, calls,
          context_vars>>

\* Sequences indices are 1-based here and 0-based in the code.

None == [some |-> FALSE, pos |-> <<0, 0, 0>>, inliers |-> <<>>]

Some(pos, inliers) == [some |-> TRUE, pos |-> pos, inliers |-> inliers]

NoHypothesis == [count |-> -1, pos |-> <<0, 0, 0>>, inliers |-> <<>>]

NotRefined == [actual_inliers_indices |-> <<>>, final_pos |-> <<0, 0, 0>>,
               avg_error_dist |-> FNaN]

\* No earlier call has been made.
NoEarlierCall == [called |-> FALSE, output |-> <<>>]

\* levenberg_marquardt_optimize has not been called on its own.
LmNotCalled == [pc |-> "idle", lines |-> <<>>, initial_guess |-> <<0, 0, 0>>,
                iterations |-> 0, initial_lambda |-> LmInitialLambdaExp,
                current_pos |-> <<0, 0, 0>>, lambda |-> LmInitialLambdaExp,
                pass |-> 0]

\* No sampling loop is being followed.
NotSampling == [pc |-> "idle", len |-> 0, sample_indices |-> {}, drawn |-> -1,
                rejected |-> FALSE]

\* The front end is not running.
MainNotRun == [pc |-> "idle", true_targets |-> <<>>, printed |-> 0,
               exit_code |-> -1]

\* All sequences over S of length at most n.
SeqUpTo(S, n) == UNION {[1..k -> S] : k \in 0..n}

\* The indices 1..n, in order.
Indices(n) == [i \in 1..n |-> i]

\* remaining_lines: the lines remaining_lines_map points at.
RemainingLines(map) == [i \in 1..Len(map) |-> all_lines[map[i]]]

\* find_targets' locals at entry (lines 201-204), and those of the model
\* that belong to no call yet.
FreshLocals ==
    /\ pc = "start"
    /\ all_lines = <<>>
    /\ located_targets = <<>>
    /\ used_line_indices = {}
    /\ target_id_counter = 1
    /\ remaining_lines_map = <<>>
    /\ ransac_result = None
    /\ refined = NotRefined
    /\ iteration = 0
    /\ best_inliers_indices = <<>>
    /\ best_model_pos = <<0, 0, 0>>
    /\ first_max = NoHypothesis
    /\ support = <<>>
    /\ calls = [ransac |-> 0, refiner |-> 0]

Init ==
    /\ data \in SeqUpTo(Catalogue, MaxRays)
    /\ ransac_threshold_m \in Thresholds
    /\ min_lines_per_target \in 0..MaxMinLines
    /\ FreshLocals
    /\ previous = NoEarlierCall
    /\ lm = LmNotCalled
    /\ sample = NotSampling
    /\ main = MainNotRun

(* ---------------------------- find_targets ----------------------------- *)

\* Lines 206 and 219: `len() < min_lines_per_target`, the test of the early
\* return and of the loop's first break.
TooFewNever(n, min_lines) == FALSE

TooFewOrEqual(n, min_lines) == n <= min_lines

TooFew(n, min_lines) == n < min_lines

\* Lines 201-208: build the lines, return at once if there are too few.
BuildLines ==
    /\ pc = "start"
    /\ all_lines' = [i \in 1..Len(data) |-> get_line(data[i])]
    /\ pc' = IF TooFew(Len(data), min_lines_per_target)
             THEN "done" ELSE "select"
    /\ UNCHANGED context_vars
    /\ UNCHANGED <<data, ransac_threshold_m, min_lines_per_target,
                   located_targets, used_line_indices, target_id_counter,
                   remaining_lines_map, ransac_result, refined, iteration,
                   best_inliers_indices, best_model_pos, first_max, support,
                   calls>>

\* The unused original indices, in increasing order (lines 212-216).
RemainingMap(used) ==
    LET Unused(i) == i \notin used
    IN  SelectSeq(Indices(Len(all_lines)), Unused)

\* Lines 212-223: filter the unused lines; break if fewer than
\* min_lines_per_target remain, else call ransac_fit_lines.
SelectRemaining ==
    /\ pc = "select"
    /\ remaining_lines_map' = RemainingMap(used_line_indices)
    /\ pc' = IF TooFew(Len(remaining_lines_map'), min_lines_per_target)
             THEN "done" ELSE "ransac_entry"
    /\ UNCHANGED context_vars
    /\ UNCHANGED <<data, ransac_threshold_m, min_lines_per_target, all_lines,
                   located_targets, used_line_indices, target_id_counter,
                   ransac_result, refined, iteration, best_inliers_indices,
                   best_model_pos, first_max, support, calls>>

(* --------------------------- ransac_fit_lines -------------------------- *)

\* Line 149: `all_lines.len() < 3`.
PoolTooSmallTwo(n) == n < 2

PoolTooSmall(n) == n < 3

\* Lines 145-151: initialise the best hypothesis; a pool of fewer than three
\* lines returns None.
RansacEnter ==
    /\ pc = "ransac_entry"
    /\ best_inliers_indices' = <<>>
    /\ best_model_pos' = <<0, 0, 0>>
    /\ iteration' = 0
    /\ first_max' = NoHypothesis
    /\ calls' = [calls EXCEPT !.ransac = @ + 1]
    /\ IF PoolTooSmall(Len(remaining_lines_map))
       THEN /\ ransac_result' = None
            /\ pc' = "ransac_returned"
       ELSE /\ ransac_result' = ransac_result
            /\ pc' = "ransac_loop"
    /\ UNCHANGED context_vars
    /\ UNCHANGED <<data, ransac_threshold_m, min_lines_per_target, all_lines,
                   located_targets, used_line_indices, target_id_counter,
                   remaining_lines_map, refined, support>>

\* Lines 162-167: the average of the three pairwise closest midpoints.
InitialGuess(sample_lines) ==
    LET m01 == find_closest_midpoint(sample_lines[1], sample_lines[2])
        m02 == find_closest_midpoint(sample_lines[1], sample_lines[3])
        m12 == find_closest_midpoint(sample_lines[2], sample_lines[3])
    IN  IF IsNaN3(m01) \/ IsNaN3(m02) \/ IsNaN3(m12)
        THEN NaN3
        ELSE VDiv(VAdd(VAdd(m01, m02), m12), 3)

\* Lines 170-178: the pool indices within the threshold of the guess, in
\* increasing order.
CurrentInliers(lines, initial_guess, ransac_threshold) ==
    LET Close(i) == WithinThreshold(PerpDistSq(initial_guess, lines[i]),
                                    ransac_threshold)
    IN  SelectSeq(Indices(Len(lines)), Close)

\* Lines 180-182: whether the current hypothesis replaces the best one.
IsBetter(current_inliers_indices, best, min_lines) ==
    /\ Len(current_inliers_indices) > Len(best)
    /\ Len(current_inliers_indices) >= min_lines

\* Lines 153-186: one pass of the for loop.  sample_indices is any set of
\* three distinct pool indices.  A HashSet iterates in any order; the guess
\* is the sum of the three pairwise midpoints, each symmetric in its two
\* lines, so the order does not change it and the model takes i < j < k.
RansacIterate ==
    /\ pc = "ransac_loop"
    /\ iteration < RansacIterations
    /\ LET all == RemainingLines(remaining_lines_map)
       IN  \E i, j, k \in 1..Len(all) :
             /\ i < j /\ j < k
             /\ LET sample_lines == <<all[i], all[j], all[k]>>
                    initial_guess == InitialGuess(sample_lines)
                    current_inliers_indices ==
                        CurrentInliers(all, initial_guess, ransac_threshold_m)
                IN  /\ IF IsBetter(current_inliers_indices,
                                   best_inliers_indices, min_lines_per_target)
                       THEN /\ best_inliers_indices' = current_inliers_indices
                            /\ best_model_pos' = initial_guess
                       ELSE UNCHANGED <<best_inliers_indices, best_model_pos>>
                    /\ first_max' =
                         IF Len(current_inliers_indices) > first_max.count
                         THEN [count |-> Len(current_inliers_indices),
                               pos |-> initial_guess,
                               inliers |-> current_inliers_indices]
                         ELSE first_max
    /\ iteration' = iteration + 1
    /\ UNCHANGED context_vars
    /\ UNCHANGED <<data, ransac_threshold_m, min_lines_per_target, pc,
                   all_lines, located_targets, used_line_indices,
                   target_id_counter, remaining_lines_map, ransac_result,
                   refined, support, calls>>

RansacResultAlways(best_pos, best, min_lines) == Some(best_pos, best)

RansacResultStrict(best_pos, best, min_lines) ==
    IF Len(best) > min_lines THEN Some(best_pos, best) ELSE None

\* Lines 188-192: the value returned after the loop.
RansacResult(best_pos, best, min_lines) ==
    IF Len(best) >= min_lines THEN Some(best_pos, best) ELSE None

RansacReturn ==
    /\ pc = "ransac_loop"
    /\ iteration = RansacIterations
    /\ ransac_result' = RansacResult(best_model_pos, best_inliers_indices,
                                     min_lines_per_target)
    /\ pc' = "ransac_returned"
    /\ UNCHANGED context_vars
    /\ UNCHANGED <<data, ransac_threshold_m, min_lines_per_target, all_lines,
                   located_targets, used_line_indices, target_id_counter,
                   remaining_lines_map, refined, iteration,
                   best_inliers_indices, best_model_pos, first_max, support,
                   calls>>

(* ---------------------- find_targets, continued ------------------------ *)

\* Lines 262-264: ransac_fit_lines returned None; break.
NoConsensus ==
    /\ pc = "ransac_returned"
    /\ ~ransac_result.some
    /\ pc' = "done"
    /\ UNCHANGED context_vars
    /\ UNCHANGED <<data, ransac_threshold_m, min_lines_per_target, all_lines,
                   located_targets, used_line_indices, target_id_counter,
                   remaining_lines_map, ransac_result, refined, iteration,
                   best_inliers_indices, best_model_pos, first_max, support,
                   calls>>

ActualInliersUnmapped(inliers_indices, map) == inliers_indices

\* Lines 229-232: pool-local inlier indices to original indices.
ActualInliers(inliers_indices, map) ==
    [n \in 1..Len(inliers_indices) |-> map[inliers_indices[n]]]

\* Lines 242-249: sqrt(total_error_sq / n), in 1/Scale metres rounded down;
\* 0.0 / 0.0 is NaN for an empty target.
AvgErrorDist(target_lines, final_pos) ==
    IF Len(target_lines) = 0
    THEN FNaN
    ELSE FVal(ISqrt(ErrorSq(target_lines, final_pos) \div Len(target_lines)))

\* Lines 229-249: translate the inliers, refine the seed, average the error.
Refine ==
    /\ pc = "ransac_returned"
    /\ ransac_result.some
    /\ LET actual_inliers_indices ==
               ActualInliers(ransac_result.inliers, remaining_lines_map)
           target_lines == [n \in 1..Len(actual_inliers_indices) |->
                               all_lines[actual_inliers_indices[n]]]
           final_pos == levenberg_marquardt_optimize(
                            target_lines, ransac_result.pos, LmIterations,
                            LmInitialLambdaExp)
       IN  refined' = [actual_inliers_indices |-> actual_inliers_indices,
                       final_pos |-> final_pos,
                       avg_error_dist |-> AvgErrorDist(target_lines, final_pos)]
    /\ calls' = [calls EXCEPT !.refiner = @ + 1]
    /\ pc' = "commit"
    /\ UNCHANGED context_vars
    /\ UNCHANGED <<data, ransac_threshold_m, min_lines_per_target, all_lines,
                   located_targets, used_line_indices, target_id_counter,
                   remaining_lines_map, ransac_result, iteration,
                   best_inliers_indices, best_model_pos, first_max, support>>

\* format!("Target_{}", n)
TargetId(n) == <<"Target_", n>>

\* The elements of a sequence.
Range(s) == {s[i] : i \in 1..Len(s)}

NextTargetIdSame(counter) == counter

\* Line 257: target_id_counter += 1.
NextTargetId(counter) == counter + 1

MarkUsedNothing(used, actual_inliers_indices) == used

MarkUsedFirstOnly(used, actual_inliers_indices) ==
    IF actual_inliers_indices = <<>>
    THEN used
    ELSE used \cup {actual_inliers_indices[1]}

MarkUsedAndFirstLine(used, actual_inliers_indices) ==
    used \cup Range(actual_inliers_indices) \cup {1}

\* Lines 259-261: insert every inlier's original index into the used set.
MarkUsed(used, actual_inliers_indices) ==
    used \cup Range(actual_inliers_indices)

\* Lines 251-261: append the target, count it, mark its rays used.
Commit ==
    /\ pc = "commit"
    /\ Len(located_targets) < MaxTargets
    /\ located_targets' = Append(located_targets,
           [id |-> TargetId(target_id_counter),
            position |-> refined.final_pos,
            num_lines |-> Len(refined.actual_inliers_indices),
            avg_error_dist_m |-> refined.avg_error_dist])
    /\ target_id_counter' = NextTargetId(target_id_counter)
    /\ used_line_indices' =
           MarkUsed(used_line_indices, refined.actual_inliers_indices)
    /\ support' = Append(support, Range(refined.actual_inliers_indices))
    /\ pc' = "select"
    /\ UNCHANGED context_vars
    /\ UNCHANGED <<data, ransac_threshold_m, min_lines_per_target, all_lines,
                   remaining_lines_map, ransac_result, refined, iteration,
                   best_inliers_indices, best_model_pos, first_max, calls>>

Next ==
    \/ BuildLines
    \/ SelectRemaining
    \/ RansacEnter
    \/ RansacIterate
    \/ RansacReturn
    \/ NoConsensus
    \/ Refine
    \/ Commit

Spec == Init /\ [][Next]_vars

(* ------------------------- two calls in a row -------------------------- *)

\* The caller keeps the list find_targets returned and calls it again with
\* the same arguments.  Every local of find_targets is created afresh by the
\* call (lines 201-204), and ransac_fit_lines takes its generator from
\* thread_rng() (line 145): neither function has a parameter for a seed or a
\* generator, so the second call's draws are as free as the first call's.
CallAgain ==
    /\ pc = "done"
    /\ ~previous.called
    /\ previous' = [called |-> TRUE, output |-> located_targets]
    /\ pc' = "start"
    /\ all_lines' = <<>>
    /\ located_targets' = <<>>
    /\ used_line_indices' = {}
    /\ target_id_counter' = 1
    /\ remaining_lines_map' = <<>>
    /\ ransac_result' = None
    /\ refined' = NotRefined
    /\ iteration' = 0
    /\ best_inliers_indices' = <<>>
    /\ best_model_pos' = <<0, 0, 0>>
    /\ first_max' = NoHypothesis
    /\ support' = <<>>
    /\ calls' = [ransac |-> 0, refiner |-> 0]
    /\ UNCHANGED <<data, ransac_threshold_m, min_lines_per_target, lm,
                   sample, main>>

NextTwoCalls ==
    \/ Next
    \/ CallAgain

SpecTwoCalls == Init /\ [][NextTwoCalls]_vars

(* ------------- levenberg_marquardt_optimize called on its own ---------- *)

\* The well-formed lines of the Catalogue.
LmLines == {get_line(MX), get_line(MY), get_line(MV)}

\* Initial guesses, in 1/Scale metres: on every line's nearest points, off
\* all of them, and far off.
LmGuesses == {<<0, 0, 0>>, <<20, -4, 0>>, <<36, 12, 24>>}

\* Exponents of the initial lambda: 0.001 (find_targets), 0.01 (the unit
\* test) and 10.
LmLambdaExps == {-3, -2, 1}

\* The variables of find_targets, which this call does not involve.
NoFindTargets ==
    /\ data = <<>>
    /\ ransac_threshold_m = 1
    /\ min_lines_per_target = 3
    /\ FreshLocals
    /\ previous = NoEarlierCall

InitLm ==
    /\ NoFindTargets
    /\ sample = NotSampling
    /\ main = MainNotRun
    /\ \E lines \in SeqUpTo(LmLines, MaxLmLines), initial_guess \in LmGuesses,
          iterations \in 0..MaxLmIterations, initial_lambda \in LmLambdaExps :
          lm = [pc |-> "loop", lines |-> lines,
                initial_guess |-> initial_guess, iterations |-> iterations,
                initial_lambda |-> initial_lambda,
                current_pos |-> initial_guess, lambda |-> initial_lambda,
                pass |-> 0]

\* Lines 78-134: one pass of the for loop.
LmPass ==
    /\ lm.pc = "loop"
    /\ lm.pass < lm.iterations
    /\ LET r == LmIterate(lm.lines, lm.current_pos, lm.lambda)
       IN  lm' = [lm EXCEPT !.current_pos = r.pos, !.lambda = r.lam,
                            !.pass = @ + 1]
    /\ UNCHANGED <<data, ransac_threshold_m, min_lines_per_target, pc,
                   all_lines, located_targets, used_line_indices,
                   target_id_counter, remaining_lines_map, ransac_result,
                   refined, iteration, best_inliers_indices, best_model_pos,
                   first_max, support, calls, previous, sample, main>>

\* Line 135: the loop is over, current_pos is returned.
LmReturn ==
    /\ lm.pc = "loop"
    /\ lm.pass = lm.iterations
    /\ lm' = [lm EXCEPT !.pc = "returned"]
    /\ UNCHANGED <<data, ransac_threshold_m, min_lines_per_target, pc,
                   all_lines, located_targets, used_line_indices,
                   target_id_counter, remaining_lines_map, ransac_result,
                   refined, iteration, best_inliers_indices, best_model_pos,
                   first_max, support, calls, previous, sample, main>>

NextLm ==
    \/ LmPass
    \/ LmReturn

SpecLm == InitLm /\ [][NextLm]_vars

(* ------------------ the sampling loop of ransac_fit_lines -------------- *)

GenRangeInclusive(n) == 0..n

\* Line 157: rng.gen_range(0..all_lines.len()) draws from 0 .. len - 1.
GenRange(n) == 0..(n - 1)

\* The loop is entered only on a pool of 3 or more lines (line 149).
InitSample ==
    /\ NoFindTargets
    /\ lm = LmNotCalled
    /\ main = MainNotRun
    /\ \E n \in 3..MaxPool :
          sample = [pc |-> "drawing", len |-> n, sample_indices |-> {},
                    drawn |-> -1, rejected |-> FALSE]

\* Lines 156-158: one pass of the while loop, drawing r.  Inserting into a
\* HashSet an index it already holds leaves it as it is.
Draw(r) ==
    /\ sample.pc = "drawing"
    /\ Cardinality(sample.sample_indices) < 3
    /\ sample' = [sample EXCEPT
                    !.sample_indices = @ \cup {r},
                    !.drawn = r,
                    !.rejected = @ \/ r \in sample.sample_indices]
    /\ UNCHANGED <<data, ransac_threshold_m, min_lines_per_target, pc,
                   all_lines, located_targets, used_line_indices,
                   target_id_counter, remaining_lines_map, ransac_result,
                   refined, iteration, best_inliers_indices, best_model_pos,
                   first_max, support, calls, previous, lm, main>>

DrawAny == \E r \in GenRange(sample.len) : Draw(r)

\* A draw of an index the set does not hold yet.
DrawFresh == \E r \in GenRange(sample.len) \ sample.sample_indices : Draw(r)

\* Lines 156 and 159: the set holds 3 indices, the while loop is left.
SampleDone ==
    /\ sample.pc = "drawing"
    /\ Cardinality(sample.sample_indices) >= 3
    /\ sample' = [sample EXCEPT !.pc = "sampled"]
    /\ UNCHANGED <<data, ransac_threshold_m, min_lines_per_target, pc,
                   all_lines, located_targets, used_line_indices,
                   target_id_counter, remaining_lines_map, ransac_result,
                   refined, iteration, best_inliers_indices, best_model_pos,
                   first_max, support, calls, previous, lm, main>>

NextSample ==
    \/ DrawAny
    \/ SampleDone

\* The generator is fair: while the set is short of 3 indices, an index it
\* does not hold is drawn eventually.
FairSpecSample ==
    /\ InitSample
    /\ [][NextSample]_vars
    /\ WF_vars(DrawFresh)
    /\ WF_vars(SampleDone)

(* --------------------------- the demo front end ------------------------ *)

\* A measurement as generate_data emits it: the station's position and the
\* normalised direction towards the target (data_generator.rs:73-87).
Measured(m) ==
    LET d == Normalize(<<m.direction_x, m.direction_y, m.direction_z>>)
    IN  [m EXCEPT !.direction_x = d[1], !.direction_y = d[2],
                  !.direction_z = d[3]]

\* True target positions, in metres, with the measurements of stations
\* that look at them: MX and MV meet in (6,0,0), MX and MY in (0,0,0).
TargetSites ==
    {[pos |-> <<6, 0, 0>>, stations |-> {Measured(MX), Measured(MV)}],
     [pos |-> <<0, 0, 0>>, stations |-> {Measured(MX), Measured(MY)}]}

RECURSIVE generate_data(_, _)
\* data_generator.rs:43-90: for each of num_targets targets, a true position
\* and the measurements of num_stations stations, num_stations drawn from
\* the inclusive range; true_targets and all_data in generation order.
generate_data(num_targets, num_stations_per_target_range) ==
    IF num_targets = 0
    THEN {[true_targets |-> <<>>, all_data |-> <<>>]}
    ELSE UNION {
           {[true_targets |-> Append(g.true_targets, site.pos),
             all_data |-> g.all_data \o ms] :
               g \in generate_data(num_targets - 1,
                                   num_stations_per_target_range),
               ms \in UNION {[1..k -> site.stations] :
                               k \in num_stations_per_target_range[1]
                                     ..num_stations_per_target_range[2]}} :
           site \in TargetSites}

\* main.rs:6-19: generate the data and call find_targets on it.
InitMain ==
    /\ \E g \in generate_data(NumTargets, <<MinStations, MaxStations>>) :
          /\ data = g.all_data
          /\ main = [pc |-> "find_targets", true_targets |-> g.true_targets,
                     printed |-> 0, exit_code |-> -1]
    /\ ransac_threshold_m = MainThreshold
    /\ min_lines_per_target = MainMinLines
    /\ FreshLocals
    /\ previous = NoEarlierCall
    /\ lm = LmNotCalled
    /\ sample = NotSampling

\* main.rs:22: find_targets has returned; print the CSV header.
PrintHeader ==
    /\ pc = "done"
    /\ main.pc = "find_targets"
    /\ main' = [main EXCEPT !.pc = "loop"]
    /\ UNCHANGED <<data, ransac_threshold_m, min_lines_per_target, pc,
                   all_lines, located_targets, used_line_indices,
                   target_id_counter, remaining_lines_map, ransac_result,
                   refined, iteration, best_inliers_indices, best_model_pos,
                   first_max, support, calls, previous, lm, sample>>

\* main.rs:23-35: the record of located target i (0-based: the number of
\* records printed so far), next to true_targets[i].
PrintRecord ==
    /\ main.pc = "loop"
    /\ main.printed < Len(located_targets)
    /\ main.printed < Len(main.true_targets)
    /\ main' = [main EXCEPT !.printed = @ + 1]
    /\ UNCHANGED <<data, ransac_threshold_m, min_lines_per_target, pc,
                   all_lines, located_targets, used_line_indices,
                   target_id_counter, remaining_lines_map, ransac_result,
                   refined, iteration, best_inliers_indices, best_model_pos,
                   first_max, support, calls, previous, lm, sample>>

\* main.rs:24: true_targets[i] with i >= true_targets.len() panics (index
\* out of bounds), which ends the process with PanicExitCode.
IndexPanic ==
    /\ main.pc = "loop"
    /\ main.printed < Len(located_targets)
    /\ main.printed >= Len(main.true_targets)
    /\ main' = [main EXCEPT !.pc = "exited", !.exit_code = PanicExitCode]
    /\ UNCHANGED <<data, ransac_threshold_m, min_lines_per_target, pc,
                   all_lines, located_targets, used_line_indices,
                   target_id_counter, remaining_lines_map, ransac_result,
                   refined, iteration, best_inliers_indices, best_model_pos,
                   first_max, support, calls, previous, lm, sample>>

\* main.rs:36: the loop is over, main returns, the exit status is 0.
MainReturn ==
    /\ main.pc = "loop"
    /\ main.printed = Len(located_targets)
    /\ main' = [main EXCEPT !.pc = "exited", !.exit_code = 0]
    /\ UNCHANGED <<data, ransac_threshold_m, min_lines_per_target, pc,
                   all_lines, located_targets, used_line_indices,
                   target_id_counter, remaining_lines_map, ransac_result,
                   refined, iteration, best_inliers_indices, best_model_pos,
                   first_max, support, calls, previous, lm, sample>>

NextMain ==
    \/ Next
    \/ PrintHeader
    \/ PrintRecord
    \/ IndexPanic
    \/ MainReturn

SpecMain == InitMain /\ [][NextMain]_vars

(* ---------------------- calls with a wide threshold -------------------- *)

\* ransac_threshold_m values, in metres, of which the larger one lets rays
\* that do not meet (MY and MV, 6 m apart) support one target.
WideThresholds == {1, 4}

InitWideThreshold ==
    /\ data \in SeqUpTo(Catalogue, MaxRays)
    /\ ransac_threshold_m \in WideThresholds
    /\ min_lines_per_target \in 0..MaxMinLines
    /\ FreshLocals
    /\ previous = NoEarlierCall
    /\ lm = LmNotCalled
    /\ sample = NotSampling
    /\ main = MainNotRun

SpecWideThreshold == InitWideThreshold /\ [][Next]_vars

(* ----------------------------- properties ------------------------------ *)

\* The cap MaxTargets never stops a call with min_lines_per_target >= 1.
CapNeverBinds ==
    (pc = "commit" /\ min_lines_per_target >= 1)
        => Len(located_targets) < MaxTargets

\* C1: within one call the sets of original ray indices supporting any two
\* distinct returned targets are disjoint, and a target's rays are counted
\* once each: no original index is assigned to more than one target.
C1_DisjointSupport ==
    /\ \A a, b \in 1..Len(support) :
          a # b => support[a] \cap support[b] = {}
    /\ \A a \in 1..Len(support) :
          /\ support[a] \subseteq 1..Len(data)
          /\ Cardinality(support[a]) = located_targets[a].num_lines

\* The second target has just been committed; each of the two is supported
\* by at least one ray, and the second one's rays were found in a pool whose
\* local indices differ from the original ones.
C1_Witness ==
    /\ pc = "select"
    /\ Len(support) = 2
    /\ support[1] # {}
    /\ support[2] # {}
    /\ \E n \in 1..Len(ransac_result.inliers) :
          ransac_result.inliers[n] # refined.actual_inliers_indices[n]

\* C2: every returned target has num_lines >= min_lines_per_target, for
\* every measurement list, threshold and min_lines_per_target.
C2_EnoughLines ==
    \A t \in 1..Len(located_targets) :
        located_targets[t].num_lines >= min_lines_per_target

\* A call with min_lines_per_target >= 2 returned a target that some of the
\* rays do not support.
C2_Witness ==
    /\ pc = "done"
    /\ min_lines_per_target >= 2
    /\ Len(located_targets) >= 1
    /\ located_targets[1].num_lines < Len(data)

\* The call has returned or can take a step (the guards of the actions;
\* ransac_fit_lines' sampling loop ends only on a pool of 3 or more rays).
CanProceed ==
    \/ pc \in {"start", "select", "ransac_entry", "ransac_returned", "done"}
    \/ /\ pc = "ransac_loop"
       /\ \/ iteration = RansacIterations
          \/ iteration < RansacIterations /\ Len(remaining_lines_map) >= 3
    \/ pc = "commit" /\ Len(located_targets) < MaxTargets

\* Steps the call may still take, counted generously: a full pass of the
\* outer loop for every unused ray, and the rest of the current pass.
Variant ==
    LET pass == RansacIterations + 6
        unused == Len(data) - Cardinality(used_line_indices)
        rest == CASE pc = "start" -> RansacIterations + 6
                  [] pc = "select" -> RansacIterations + 5
                  [] pc = "ransac_entry" -> RansacIterations + 4
                  [] pc = "ransac_loop" -> (RansacIterations - iteration) + 3
                  [] pc = "ransac_returned" -> 2
                  [] pc = "commit" -> 1
                  [] pc = "done" -> 0
    IN  unused * pass + rest

\* C3: every call with min_lines_per_target >= 1 terminates.  Each
\* successful outer iteration marks at least min_lines_per_target previously
\* unused rays as used; every step of such a call decreases Variant, a
\* natural number, and a call that has not returned can take a step; the
\* loop has ended either because ransac_fit_lines returned None or because
\* fewer than min_lines_per_target rays remained.
C3_Terminates ==
    /\ [][(pc = "commit" /\ pc' = "select")
            => /\ used_line_indices \subseteq used_line_indices'
               /\ Cardinality(used_line_indices')
                    >= Cardinality(used_line_indices) + min_lines_per_target]_vars
    /\ [][min_lines_per_target >= 1 => Variant' < Variant]_vars
    /\ [](Variant >= 0)
    /\ [](min_lines_per_target >= 1 => CanProceed)
    /\ [](pc = "done"
            => \/ ~ransac_result.some
               \/ Len(RemainingMap(used_line_indices)) < min_lines_per_target)

\* A call with min_lines_per_target >= 1 ended after two successful outer
\* iterations.
C3_Witness ==
    /\ pc = "done"
    /\ min_lines_per_target >= 1
    /\ Len(located_targets) = 2

\* C4: for min_lines_per_target >= 1 the number of returned targets never
\* exceeds floor(#rays / min_lines_per_target).
C4_TargetCount ==
    min_lines_per_target >= 1
        => Len(located_targets) <= Len(data) \div min_lines_per_target

\* The bound is attained by a call that returned a target.
C4_Witness ==
    /\ pc = "done"
    /\ min_lines_per_target >= 2
    /\ Len(located_targets) >= 1
    /\ Len(located_targets) = Len(data) \div min_lines_per_target

\* C5: the k-th returned target has id "Target_k": ids are numbered
\* consecutively from 1 in discovery order, without gaps or repeats.
C5_ConsecutiveIds ==
    /\ \A k \in 1..Len(located_targets) :
          located_targets[k].id = <<"Target_", k>>
    /\ target_id_counter = Len(located_targets) + 1

\* A call returned two targets.
C5_Witness ==
    /\ pc = "done"
    /\ Len(located_targets) = 2
    /\ located_targets[2].num_lines >= 1

\* C6: ransac_fit_lines returns None if the pool has fewer than 3 rays or if
\* no hypothesis of any iteration attains min_lines inliers; in every other
\* case it returns a hypothesis with at least min_lines inliers.
C6_NoneOrEnough ==
    pc = "ransac_returned" =>
        LET none_case == \/ Len(remaining_lines_map) < 3
                         \/ first_max.count < min_lines_per_target
        IN  /\ none_case => ~ransac_result.some
            /\ ~none_case => /\ ransac_result.some
                             /\ Len(ransac_result.inliers)
                                  >= min_lines_per_target

\* ransac_fit_lines returned None on a pool of at least 3 rays whose best
\* hypothesis had inliers, but fewer than min_lines.
C6_Witness ==
    /\ pc = "ransac_returned"
    /\ Len(remaining_lines_map) >= 3
    /\ first_max.count >= 1
    /\ first_max.count < min_lines_per_target
    /\ ~ransac_result.some

\* A measurement whose direction has norm 0.
IsDegenerate(m) ==
    m.direction_x = 0 /\ m.direction_y = 0 /\ m.direction_z = 0

\* C7: when ransac_fit_lines returns a hypothesis, it is the one with the
\* largest inlier count among all iterations' hypotheses, the earliest one on
\* a tie; the returned seed position and inlier indices are those of that
\* iteration.  (Stated for pools of well-formed rays, so that no NaN seed
\* takes part.)
C7_BestOfAllIterations ==
    (/\ pc = "ransac_returned"
     /\ ransac_result.some
     /\ \A i \in 1..Len(data) : ~IsDegenerate(data[i]))
        => /\ ransac_result.inliers = first_max.inliers
           /\ ransac_result.pos = first_max.pos

\* C8, as stated: with 0 measurements, or fewer than min_lines_per_target,
\* find_targets returns an empty list and invokes neither ransac_fit_lines
\* nor the refiner.
C8_Original ==
    (Len(data) = 0 \/ Len(data) < min_lines_per_target)
        => /\ located_targets = <<>>
           /\ calls.ransac = 0
           /\ calls.refiner = 0

\* C8, amended: with fewer than min_lines_per_target measurements
\* find_targets returns an empty list and invokes neither ransac_fit_lines
\* nor the refiner; with 0 measurements it returns an empty list and never
\* invokes the refiner, and it invokes ransac_fit_lines exactly when
\* min_lines_per_target is 0 (once; the call returns None).
C8_EmptyWithoutFitting ==
    /\ Len(data) < min_lines_per_target
          => /\ located_targets = <<>>
             /\ calls.ransac = 0
             /\ calls.refiner = 0
             /\ pc \in {"start", "done"}
    /\ Len(data) = 0
          => /\ located_targets = <<>>
             /\ calls.refiner = 0
             /\ calls.ransac <= 1
             /\ calls.ransac = 1 => min_lines_per_target = 0 /\ ~ransac_result.some
             /\ pc = "done" => (calls.ransac = 1 <=> min_lines_per_target = 0)

\* A call with some measurements, but fewer than min_lines_per_target, has
\* returned.
C8_Witness ==
    /\ pc = "done"
    /\ Len(data) >= 1
    /\ Len(data) < min_lines_per_target

\* Two measurements whose rays meet in one point (MX and MY in (0,0,0), MX
\* and MV in (6,0,0)), as in Scenario A.
TwoRaysMeeting ==
    /\ Len(data) = 2
    /\ {data[1], data[2]} \in {{MX, MY}, {MX, MV}}

\* The point, in 1/Scale metres, where the two rays of TwoRaysMeeting meet.
MeetingPoint ==
    IF {data[1], data[2]} = {MX, MY} THEN <<0, 0, 0>> ELSE <<6 * Scale, 0, 0>>

\* C9, as stated: for two rays that meet in one point and min_lines = 2,
\* find_targets returns exactly one target, at the meeting point, with
\* num_lines = 2.
C9_Original ==
    (pc = "done" /\ TwoRaysMeeting /\ min_lines_per_target = 2)
        => /\ Len(located_targets) = 1
           /\ located_targets[1].position = MeetingPoint
           /\ located_targets[1].num_lines = 2

\* C9, amended: for two rays that meet in one point and min_lines = 2,
\* find_targets returns an empty list: ransac_fit_lines is called once and
\* returns None because the pool has fewer than 3 rays, the refiner is never
\* called, and the call runs on until it has returned.
C9_TwoRaysEmpty ==
    (TwoRaysMeeting /\ min_lines_per_target = 2)
        => /\ located_targets = <<>>
           /\ calls.refiner = 0
           /\ calls.ransac <= 1
           /\ ~ransac_result.some
           /\ pc = "done" => calls.ransac = 1
           /\ CanProceed

\* The call on two meeting rays with min_lines = 2 has returned.
C9_Witness ==
    /\ pc = "done"
    /\ TwoRaysMeeting
    /\ min_lines_per_target = 2
    /\ calls.ransac = 1

\* C10: a measurement whose direction has norm below epsilon is rejected
\* during ray building: it never becomes a ray of the pool, and find_targets
\* does not return normally from a call that was given one.
C10_DegenerateRejected ==
    /\ \A i \in 1..Len(all_lines) : ~IsDegenerate(data[i])
    /\ pc = "done" => \A i \in 1..Len(data) : ~IsDegenerate(data[i])

\* C11: the randomness source of ransac_fit_lines is seedable, and with a
\* fixed seed two calls with identical inputs return identical output; no
\* state of an earlier call influences a later one.  The code offers no seed
\* to fix, so the property reads: a second call with the same arguments
\* returns what the first call returned.  (Stated for lists of well-formed
\* measurements.)
C11_SameOutput ==
    (/\ previous.called
     /\ pc = "done"
     /\ \A i \in 1..Len(data) : ~IsDegenerate(data[i]))
        => located_targets = previous.output

\* The lines of the target being committed.
TargetLines ==
    [n \in 1..Len(refined.actual_inliers_indices) |->
        all_lines[refined.actual_inliers_indices[n]]]

\* C12: find_targets never returns a target whose avg_error_dist_m exceeds
\* ransac_threshold * sqrt(3) (a NaN error exceeds nothing): every
\* supporting ray lies within ransac_threshold of the seed, and the refined
\* position's sum of squared distances is not above the seed's.
C12_ErrorBound ==
    /\ \A t \in 1..Len(located_targets) :
          LET e == located_targets[t].avg_error_dist_m
          IN  ~e.nan => e.v * e.v <= 3 * (ransac_threshold_m * Scale)
                                       * (ransac_threshold_m * Scale)
    /\ pc = "commit" =>
          /\ \A n \in 1..Len(TargetLines) :
                WithinThreshold(PerpDistSq(ransac_result.pos, TargetLines[n]),
                                ransac_threshold_m)
          /\ ErrorSq(TargetLines, refined.final_pos)
                <= ErrorSq(TargetLines, ransac_result.pos)

\* A target of rays that do not all meet has been returned: the refiner
\* moved the seed and the average error is positive.
C12_Witness ==
    /\ pc = "select"
    /\ Len(located_targets) >= 1
    /\ refined.final_pos # ransac_result.pos
    /\ Len(TargetLines) >= 3
    /\ ~located_targets[Len(located_targets)].avg_error_dist_m.nan
    /\ located_targets[Len(located_targets)].avg_error_dist_m.v > 0

\* The state of the outer loop's state machine the call is in.  PROPOSE
\* lasts from the call of ransac_fit_lines until its result is known; REFINE
\* is entered when that result is a hypothesis, COMMIT when the refinement
\* and the average error are computed.
Phase ==
    CASE pc = "start" -> "BUILD"
      [] pc = "select" -> "SELECT_REMAINING"
      [] pc \in {"ransac_entry", "ransac_loop"} -> "PROPOSE"
      [] pc = "ransac_returned" ->
            IF ransac_result.some THEN "REFINE" ELSE "PROPOSE"
      [] pc = "commit" -> "COMMIT"
      [] pc = "done" -> "EXIT"

\* C13: each outer iteration follows only these transitions:
\* SELECT_REMAINING -> PROPOSE when at least min_lines unused rays remain and
\* -> EXIT otherwise; PROPOSE -> REFINE when ransac_fit_lines finds consensus
\* and -> EXIT otherwise; REFINE -> COMMIT always; COMMIT -> SELECT_REMAINING
\* always.  No target is appended and no index is marked used except by the
\* step that leaves COMMIT.
C13_Transitions ==
    [][/\ Phase' # Phase =>
             <<Phase, Phase'>> \in {<<"BUILD", "SELECT_REMAINING">>,
                                   <<"BUILD", "EXIT">>,
                                   <<"SELECT_REMAINING", "PROPOSE">>,
                                   <<"SELECT_REMAINING", "EXIT">>,
                                   <<"PROPOSE", "REFINE">>,
                                   <<"PROPOSE", "EXIT">>,
                                   <<"REFINE", "COMMIT">>,
                                   <<"COMMIT", "SELECT_REMAINING">>}
       /\ Phase = "SELECT_REMAINING" =>
             LET enough == Len(RemainingMap(used_line_indices))
                              >= min_lines_per_target
             IN  Phase' = IF enough THEN "PROPOSE" ELSE "EXIT"
       /\ (Phase = "PROPOSE" /\ Phase' = "REFINE") => ransac_result'.some
       /\ (Phase = "PROPOSE" /\ Phase' = "EXIT") =>
             pc = "ransac_returned" /\ ~ransac_result.some
       /\ (Phase = "PROPOSE" /\ pc = "ransac_returned") => Phase' = "EXIT"
       /\ Phase = "REFINE" => Phase' = "COMMIT"
       /\ Phase = "COMMIT" => Phase' = "SELECT_REMAINING"
       /\ (located_targets' # located_targets
             \/ used_line_indices' # used_line_indices
             \/ target_id_counter' # target_id_counter)
            => Phase = "COMMIT" /\ Phase' = "SELECT_REMAINING"]_vars

\* A call went round the loop at least once and then left it from PROPOSE,
\* on a pool of three or more rays without consensus.
C13_Witness ==
    /\ pc = "done"
    /\ Len(located_targets) >= 1
    /\ calls.ransac = Len(located_targets) + 1
    /\ Len(remaining_lines_map) >= 3
    /\ ~ransac_result.some

\* The sum of num_lines over the targets emitted so far.
SumNumLines ==
    SumSeq([t \in 1..Len(located_targets) |-> located_targets[t].num_lines])

\* C14: the used set holds only valid original ray indices, each at most
\* once, and grows monotonically: every successful outer iteration adds at
\* least min_lines indices none of which was in it before (as many as the
\* new target's num_lines), nothing is ever removed, and the size of the set
\* equals the sum of num_lines of the targets emitted so far.
C14_UsedSet ==
    /\ [](used_line_indices \subseteq 1..Len(data))
    /\ [](Cardinality(used_line_indices) = SumNumLines)
    /\ [](pc = "commit" =>
            /\ Cardinality(Range(refined.actual_inliers_indices))
                  = Len(refined.actual_inliers_indices)
            /\ Range(refined.actual_inliers_indices) \cap used_line_indices = {})
    /\ [][used_line_indices \subseteq used_line_indices']_vars
    /\ [][located_targets' # located_targets =>
            LET added == used_line_indices' \ used_line_indices
            IN  /\ Cardinality(added) >= min_lines_per_target
                /\ Cardinality(added)
                     = located_targets'[Len(located_targets')].num_lines
                /\ added = Range(refined.actual_inliers_indices)]_vars

\* The loop is at its head after two successful iterations, the second of
\* which added two or more indices to a set that was not empty.
C14_Witness ==
    /\ pc = "select"
    /\ Len(located_targets) = 2
    /\ located_targets[1].num_lines >= 1
    /\ located_targets[2].num_lines >= 2
    /\ Cardinality(used_line_indices) >= 3

\* The sum of squared distances from the lines of the call to pos.
LmCost(pos) == ErrorSq(lm.lines, pos)

\* C15: in levenberg_marquardt_optimize the position changes only in an
\* iteration whose trial step strictly decreases the sum of squared
\* residuals, and lambda is then multiplied by 0.1; in every other iteration
\* the position is unchanged and lambda is multiplied by 10.  The cost at the
\* current position never increases and is never above the cost at the
\* initial guess, at most `iterations` passes are made, and the function
\* returns after exactly that many.
C15_AcceptOrReject ==
    /\ [][lm'.pass # lm.pass =>
            /\ lm'.pass = lm.pass + 1
            /\ \/ /\ LmCost(lm'.current_pos) < LmCost(lm.current_pos)
                  /\ lm'.lambda = lm.lambda - 1
               \/ /\ lm'.current_pos = lm.current_pos
                  /\ lm'.lambda = lm.lambda + 1]_vars
    /\ [][LmCost(lm'.current_pos) <= LmCost(lm.current_pos)]_vars
    /\ [][/\ lm'.lines = lm.lines
          /\ lm'.iterations = lm.iterations
          /\ lm'.initial_guess = lm.initial_guess
          /\ lm'.initial_lambda = lm.initial_lambda]_vars
    /\ [](lm.pass <= lm.iterations)
    /\ [](LmCost(lm.current_pos) <= LmCost(lm.initial_guess))
    /\ [](lm.pc = "returned" => lm.pass = lm.iterations)

\* A call has returned after both an accepted and a rejected pass, with a
\* cost below that of the initial guess.
C15_Witness ==
    /\ lm.pc = "returned"
    /\ lm.pass >= 2
    /\ LmCost(lm.current_pos) < LmCost(lm.initial_guess)
    /\ lm.lambda > lm.initial_lambda - lm.pass
    /\ lm.lambda < lm.initial_lambda + lm.pass

\* C16: in every iteration of ransac_fit_lines on a pool of at least 3 rays
\* the sampled indices are pairwise distinct (at most 3 different ones are
\* ever held) and valid pool indices; a duplicate draw is rejected (the set
\* is left as it is) and the loop draws again; the loop is left with
\* exactly three indices, and under fair draws it is left eventually.
C16_ThreeDistinct ==
    /\ [](sample.sample_indices \subseteq 0..(sample.len - 1))
    /\ [](Cardinality(sample.sample_indices) <= 3)
    /\ [](sample.pc = "sampled" => Cardinality(sample.sample_indices) = 3)
    /\ [][(sample'.pc = sample.pc /\ sample'.drawn \in sample.sample_indices) =>
            /\ sample'.sample_indices = sample.sample_indices
            /\ Cardinality(sample'.sample_indices) < 3
            /\ sample'.rejected]_vars
    /\ [][sample'.pc # sample.pc =>
            /\ sample'.pc = "sampled"
            /\ sample'.sample_indices = sample.sample_indices]_vars
    /\ [][sample'.sample_indices # sample.sample_indices =>
            /\ sample'.drawn \notin sample.sample_indices
            /\ sample'.sample_indices
                 = sample.sample_indices \cup {sample'.drawn}]_vars
    /\ <>(sample.pc = "sampled")

\* The loop was left with three indices after a duplicate draw was
\* rejected, on a pool of more than 3 rays.
C16_Witness ==
    /\ sample.pc = "sampled"
    /\ sample.len > 3
    /\ sample.rejected
    /\ Cardinality(sample.sample_indices) = 3

\* C17: the front end prints one record per located target and exits with
\* code 0 whenever its generated, well-formed measurements are processed,
\* whatever number of targets find_targets returns relative to the number
\* of generated true targets.
C17_ExitZero ==
    main.pc = "exited" =>
        /\ main.exit_code = 0
        /\ main.printed = Len(located_targets)

====
